---- MODULE Spec2Model ----
(***************************************************************************)
(* Model of the in-memory book inventory of src/main.go: the package-level *)
(* slice `books` and the five gin handlers that read and mutate it.        *)
(* Under Spec, SpecNonNeg and SpecEmptyId every handler runs to completion  *)
(* as one action (requests one at a time); under SpecConc the Checkout and *)
(* Return handlers interleave their lookup, check, read and write steps.   *)
(***************************************************************************)
EXTENDS Integers, Sequences, FiniteSets, TLC

\* ------------------------------------------------------------------ bounds
\* Width of Go's `int` in the model (64 on the real build); arithmetic on
\* Quantity wraps modulo 2^IntBits exactly as Go's signed int wraps.
IntBits == 4

\* The collection is never allowed to grow past MaxBooks records.
MaxBooks == 4

\* Checkout/Return handler invocations that may be in flight at once (net/http
\* serves every request on its own goroutine).
NumHandlers == 2

\* Checkout/Return requests served step by step in one run.
MaxRequests == 3

\* ----------------------------------------------------------- int arithmetic
Modulus == 2 ^ IntBits

MaxInt == 2 ^ (IntBits - 1) - 1

MinInt == 0 - 2 ^ (IntBits - 1)

\* Two's-complement wrap-around of a mathematical integer into `int`.
Wrap(n) == ((n - MinInt) % Modulus) + MinInt

\* ------------------------------------------------------------- HTTP status
StatusOK == 200

StatusCreated == 201

StatusBadRequest == 400

StatusNotFound == 404

\* --------------------------------------------------------------- the store
\* var books = []book{...}: the three seeded records.
SeedBooksLowStock ==
    << [ID |-> "1", Title |-> "In Search of Lost Time", Author |-> "Marcel Proust", Quantity |-> 3],
       [ID |-> "2", Title |-> "The Great Gatsby", Author |-> "F. Scott Fitzgerald", Quantity |-> 5],
       [ID |-> "3", Title |-> "War and Peace", Author |-> "Leo Tolstoy", Quantity |-> 6] >>

SeedBooks ==
    << [ID |-> "1", Title |-> "In Search of Lost Time", Author |-> "Marcel Proust", Quantity |-> 2],
       [ID |-> "2", Title |-> "The Great Gatsby", Author |-> "F. Scott Fitzgerald", Quantity |-> 5],
       [ID |-> "3", Title |-> "War and Peace", Author |-> "Leo Tolstoy", Quantity |-> 6] >>

\* `var newBook book`: the zero value of the struct.
ZeroBook == [ID |-> "", Title |-> "", Author |-> "", Quantity |-> 0]

\* Ids a request may carry in its query string, path or body.
QueryIds == {"", "1", "4"}

\* Ids a POST /books body may carry.
CreateIds == {"1", "4"}

\* Quantities a POST /books body may carry (after a successful BindJSON).
CreateQuantities == {0 - 1, 0, 2, MaxInt}

NonNegQuantities == {q \in CreateQuantities : q >= 0}

\* A body without an "id" field, or with "id": "", binds to the empty ID.
EmptyIds == {""}

CandidateBooksOf(ids, quantities) ==
    [ID : ids, Title : {"Hamlet"}, Author : {"William Shakespeare"}, Quantity : quantities]

CandidateBooks(quantities) == CandidateBooksOf(CreateIds, quantities)

\* getBookById: index into books of the first record whose ID equals id,
\* 0 when the loop falls through (the function returns nil and an error).
getBookByIdDefaultFirst(bs, id) ==
    IF \E i \in 1..Len(bs) : bs[i].ID = id
    THEN CHOOSE i \in 1..Len(bs) : bs[i].ID = id /\ \A j \in 1..(i - 1) : bs[j].ID # id
    ELSE 1

getBookByIdLast(bs, id) ==
    IF \E i \in 1..Len(bs) : bs[i].ID = id
    THEN CHOOSE i \in 1..Len(bs) : bs[i].ID = id /\ \A j \in (i + 1)..Len(bs) : bs[j].ID # id
    ELSE 0

getBookById(bs, id) ==
    IF \E i \in 1..Len(bs) : bs[i].ID = id
    THEN CHOOSE i \in 1..Len(bs) : bs[i].ID = id /\ \A j \in 1..(i - 1) : bs[j].ID # id
    ELSE 0

\* book.Quantity <= 0: checkout refused.
NoStockStrict(q) == q < 0

NoStock(q) == q <= 0

\* book.Quantity -= 1
DecrementByTwo(q) == Wrap(q - 2)

Decrement(q) == Wrap(q - 1)

\* book.Quantity += 1
IncrementByTwo(q) == Wrap(q + 2)

Increment(q) == Wrap(q + 1)

\* books = append(books, newBook)
AppendDropped(bs, b) == bs

AppendFront(bs, b) == <<b>> \o bs

AppendOverLast(bs, b) == [bs EXCEPT ![Len(bs)] = b]

AppendBook(bs, b) == Append(bs, b)

\* ---------------------------------------------------------------- responses
\* One call of c.IndentedJSON(code, gin.H{"message": msg}).
JSONMessage(code, msg) == [code |-> code, kind |-> "message", message |-> msg, data |-> <<>>]

\* One call of c.IndentedJSON(code, book).
JSONBook(code, b) == [code |-> code, kind |-> "book", message |-> "", data |-> <<b>>]

\* One call of c.IndentedJSON(code, books).
JSONBooks(code, bs) == [code |-> code, kind |-> "list", message |-> "", data |-> bs]

\* c.BindJSON failing: the request is aborted with 400 and no body.
AbortBadRequest == [code |-> StatusBadRequest, kind |-> "none", message |-> "", data |-> <<>>]

\* The request a handler was invoked with.
Request(op, ok, id, body) == [op |-> op, ok |-> ok, id |-> id, body |-> body]

\* What the store held for an id before a request ran.
Lookup(bs, id) ==
    LET i == getBookById(bs, id)
    IN  [found |-> (\E k \in 1..Len(bs) : bs[k].ID = id),
         quantity |-> IF i \in 1..Len(bs) /\ bs[i].ID = id THEN bs[i].Quantity ELSE 0]

NoLookup == [found |-> FALSE, quantity |-> 0]

\* ------------------------------------------------- handlers run step by step
\* append beyond cap(books) allocates a backing array of twice the capacity.
GrowCap(c) == 2 * c

\* Ids carried by the requests that are served step by step.
ConcIds == {"1"}

\* Bodies created while handlers are in flight.
ConcCandidates ==
    { [ID |-> "4", Title |-> "Hamlet", Author |-> "William Shakespeare", Quantity |-> 0] }

\* A handler that is not serving a request.
IdleHandler == [pc |-> "idle", op |-> "none", id |-> "", arr |-> 0, idx |-> 0, tmp |-> 0]

\* The counters of requests by handler.
NoRequests == [checkoutBook |-> 0, returnBook |-> 0]

VARIABLES
    books,       \* the package-level slice
    req,         \* the request handled last
    resp,        \* the responses written for it, in order
    pre,         \* what the store held for the request's id before it ran
    chain,       \* how the last request follows the one before it
    orig,        \* for chain = "checkout-return": quantity before the checkout
    checkouts1,  \* Checkout("1") requests handled before any Return of "1" (3 = three or more)
    returned1,   \* whether a Return has hit the record with id "1"
    capacity,    \* cap(books)
    retired,     \* backing arrays books has moved away from, while still pointed into
    handlers,    \* the handler invocations that run step by step
    started,     \* Checkout/Return requests those handlers have taken up, by handler
    answered     \* of these, the requests answered 200, by handler

seqvars == <<req, resp, pre, chain, orig, checkouts1, returned1>>

concvars == <<capacity, retired, handlers, started, answered>>

vars == <<books, req, resp, pre, chain, orig, checkouts1, returned1,
          capacity, retired, handlers, started, answered>>

Init ==
    /\ books = SeedBooks
    /\ req = Request("none", FALSE, "", ZeroBook)
    /\ resp = <<>>
    /\ pre = NoLookup
    /\ chain = "other"
    /\ orig = 0
    /\ checkouts1 = 0
    /\ returned1 = FALSE
    /\ capacity = Len(books)
    /\ retired = <<>>
    /\ handlers = [h \in 1..NumHandlers |-> IdleHandler]
    /\ started = NoRequests
    /\ answered = NoRequests

\* func getBooks
GetBooks ==
    /\ req' = Request("getBooks", FALSE, "", ZeroBook)
    /\ resp' = << JSONBooks(StatusOK, books) >>
    /\ pre' = NoLookup
    /\ chain' = "other"
    /\ orig' = 0
    /\ UNCHANGED <<books, checkouts1, returned1>>
    /\ UNCHANGED concvars

\* func bookById, routed from GET /books/:id (the parameter is never empty)
BookById ==
    \E id \in QueryIds \ {""} :
        LET i == getBookById(books, id)
        IN  /\ req' = Request("bookById", TRUE, id, ZeroBook)
            /\ resp' = IF i = 0
                       THEN << JSONMessage(StatusNotFound, "Book not found.") >>
                       ELSE << JSONBook(StatusOK, books[i]) >>
            /\ pre' = Lookup(books, id)
            /\ chain' = IF req.op = "createBook" /\ req.ok /\ req.body.ID = id
                        THEN "create-find" ELSE "other"
            /\ orig' = 0
            /\ UNCHANGED <<books, checkouts1, returned1>>
            /\ UNCHANGED concvars

\* func checkoutBook
CheckoutBook ==
    \E ok \in BOOLEAN : \E qid \in QueryIds :
        LET id == IF ok THEN qid ELSE ""
            missing == IF ok THEN <<>>
                       ELSE << JSONMessage(StatusBadRequest, "Missing id query parameter") >>
            i == getBookById(books, id)
        IN  /\ (~ok => qid = "")
            /\ req' = Request("checkoutBook", ok, id, ZeroBook)
            /\ pre' = Lookup(books, id)
            /\ chain' = "other"
            /\ orig' = 0
            /\ checkouts1' = IF ok /\ id = "1" /\ ~returned1 /\ checkouts1 < 3
                             THEN checkouts1 + 1 ELSE checkouts1
            /\ UNCHANGED returned1
            /\ UNCHANGED concvars
            /\ IF i = 0
               THEN /\ resp' = missing \o << JSONMessage(StatusNotFound, "Book not found") >>
                    /\ UNCHANGED books
               ELSE IF NoStock(books[i].Quantity)
               THEN /\ resp' = missing \o << JSONMessage(StatusBadRequest, "No more books left") >>
                    /\ UNCHANGED books
               ELSE /\ books' = [books EXCEPT ![i].Quantity = Decrement(@)]
                    /\ resp' = missing \o << JSONBook(StatusOK, books'[i]) >>

\* func returnBook
ReturnBook ==
    \E ok \in BOOLEAN : \E qid \in QueryIds :
        LET id == IF ok THEN qid ELSE ""
            missing == IF ok THEN <<>>
                       ELSE << JSONMessage(StatusBadRequest, "Missing id query parameter") >>
            i == getBookById(books, id)
            follows == req.op = "checkoutBook" /\ req.ok /\ ok /\ req.id = id /\ pre.found
        IN  /\ (~ok => qid = "")
            /\ req' = Request("returnBook", ok, id, ZeroBook)
            /\ pre' = Lookup(books, id)
            /\ chain' = IF follows THEN "checkout-return" ELSE "other"
            /\ orig' = IF follows THEN pre.quantity ELSE 0
            /\ returned1' = (returned1 \/ (i # 0 /\ books[i].ID = "1"))
            /\ checkouts1' = IF returned1' THEN 0 ELSE checkouts1
            /\ UNCHANGED concvars
            /\ IF i = 0
               THEN /\ resp' = missing \o << JSONMessage(StatusNotFound, "Book not found") >>
                    /\ UNCHANGED books
               ELSE /\ books' = [books EXCEPT ![i].Quantity = Increment(@)]
                    /\ resp' = missing \o << JSONBook(StatusOK, books'[i]) >>

\* func createBook, for a body that BindJSON rejects
CreateBookMalformedFallsThrough ==
    /\ req' = Request("createBook", FALSE, "", ZeroBook)
    /\ books' = IF Len(books) < MaxBooks THEN AppendBook(books, ZeroBook) ELSE books
    /\ resp' = << AbortBadRequest, JSONBook(StatusCreated, ZeroBook) >>
    /\ pre' = NoLookup
    /\ chain' = "other"
    /\ orig' = 0
    /\ UNCHANGED <<checkouts1, returned1>>
    /\ UNCHANGED concvars

CreateBookMalformed ==
    /\ req' = Request("createBook", FALSE, "", ZeroBook)
    /\ resp' = << AbortBadRequest >>
    /\ pre' = NoLookup
    /\ chain' = "other"
    /\ orig' = 0
    /\ UNCHANGED <<books, checkouts1, returned1>>
    /\ UNCHANGED concvars

\* func createBook, for a body that binds to one of the given candidates
\* Handlers holding a pointer into the backing array books currently uses.
Holders == {h \in 1..NumHandlers : handlers[h].pc # "idle" /\ handlers[h].arr = 0}

CreateBookOf(candidates) ==
    \E newBook \in candidates :
        /\ Len(books) < MaxBooks
        /\ IF Len(books) = capacity
           THEN /\ capacity' = GrowCap(capacity)
                /\ retired' = IF Holders = {} THEN retired ELSE Append(retired, books)
                /\ handlers' = [h \in 1..NumHandlers |->
                                   IF h \in Holders
                                   THEN [handlers[h] EXCEPT !.arr = Len(retired) + 1]
                                   ELSE handlers[h]]
           ELSE UNCHANGED <<capacity, retired, handlers>>
        /\ UNCHANGED <<started, answered>>
        /\ req' = Request("createBook", TRUE, newBook.ID, newBook)
        /\ books' = AppendBook(books, newBook)
        /\ resp' = << JSONBook(StatusCreated, newBook) >>
        /\ pre' = Lookup(books, newBook.ID)
        /\ chain' = "other"
        /\ orig' = 0
        /\ UNCHANGED <<checkouts1, returned1>>

CreateBook(quantities) == CreateBookOf(CandidateBooks(quantities))

Next ==
    \/ GetBooks
    \/ BookById
    \/ CheckoutBook
    \/ ReturnBook
    \/ CreateBookMalformed
    \/ CreateBook(CreateQuantities)

Spec == Init /\ [][Next]_vars

\* The same program when clients only ever create books with quantity >= 0.
NextNonNeg ==
    \/ GetBooks
    \/ BookById
    \/ CheckoutBook
    \/ ReturnBook
    \/ CreateBookMalformed
    \/ CreateBook(NonNegQuantities)

SpecNonNeg == Init /\ [][NextNonNeg]_vars

\* ------------------------------------------- handlers interleaving their steps
\* The record a handler's pointer refers to: in the array books uses now, or
\* in the array it used when getBookById took the address.
Deref(h) ==
    IF handlers[h].arr = 0 THEN books[handlers[h].idx]
    ELSE retired[handlers[h].arr][handlers[h].idx]

\* Retired arrays are kept only while some handler still points into one.
Collect(hs, rs) == IF \E h \in 1..NumHandlers : hs[h].arr # 0 THEN rs ELSE <<>>

\* checkoutBook / returnBook up to the lookup: GetQuery, getBookById, and the
\* 404 when nothing matches.
HandlerLookup(h) ==
    \E op \in {"checkoutBook", "returnBook"} : \E id \in ConcIds :
        LET i == getBookById(books, id)
        IN  /\ handlers[h].pc = "idle"
            /\ started.checkoutBook + started.returnBook < MaxRequests
            /\ started' = [started EXCEPT ![op] = @ + 1]
            /\ handlers' = [handlers EXCEPT ![h] =
                               IF i = 0 THEN IdleHandler
                               ELSE [pc |-> IF op = "checkoutBook" THEN "check" ELSE "load",
                                     op |-> op, id |-> id, arr |-> 0, idx |-> i, tmp |-> 0]]
            /\ UNCHANGED <<books, capacity, retired, answered>>
            /\ UNCHANGED seqvars

\* checkoutBook: if book.Quantity <= 0, answer 400 and return.
HandlerCheck(h) ==
    /\ handlers[h].pc = "check"
    /\ handlers' = [handlers EXCEPT ![h] =
                       IF NoStock(Deref(h).Quantity) THEN IdleHandler
                       ELSE [@ EXCEPT !.pc = "load"]]
    /\ retired' = Collect(handlers', retired)
    /\ UNCHANGED <<books, capacity, started, answered>>
    /\ UNCHANGED seqvars

\* book.Quantity -= 1 / += 1, the read of the old value.
HandlerLoad(h) ==
    /\ handlers[h].pc = "load"
    /\ handlers' = [handlers EXCEPT ![h] = [@ EXCEPT !.pc = "store", !.tmp = Deref(h).Quantity]]
    /\ UNCHANGED <<books, capacity, retired, started, answered>>
    /\ UNCHANGED seqvars

\* book.Quantity -= 1 / += 1, the write of the new value through the pointer.
HandlerStore(h) ==
    LET v == IF handlers[h].op = "checkoutBook" THEN Decrement(handlers[h].tmp)
                                                ELSE Increment(handlers[h].tmp)
    IN  /\ handlers[h].pc = "store"
        /\ handlers' = [handlers EXCEPT ![h] = [@ EXCEPT !.pc = "respond", !.tmp = v]]
        /\ IF handlers[h].arr = 0
           THEN /\ books' = [books EXCEPT ![handlers[h].idx].Quantity = v]
                /\ UNCHANGED retired
           ELSE /\ retired' = [retired EXCEPT ![handlers[h].arr][handlers[h].idx].Quantity = v]
                /\ UNCHANGED books
        /\ UNCHANGED <<capacity, started, answered>>
        /\ UNCHANGED seqvars

\* c.IndentedJSON(http.StatusOK, book): the request is answered 200.
HandlerRespond(h) ==
    /\ handlers[h].pc = "respond"
    /\ answered' = [answered EXCEPT ![handlers[h].op] = @ + 1]
    /\ handlers' = [handlers EXCEPT ![h] = IdleHandler]
    /\ retired' = Collect(handlers', retired)
    /\ UNCHANGED <<books, capacity, started>>
    /\ UNCHANGED seqvars

\* Checkout and Return handlers interleaving their steps with each other and
\* with whole Create requests.
NextConc ==
    \/ \E h \in 1..NumHandlers : HandlerLookup(h)
    \/ \E h \in 1..NumHandlers : HandlerCheck(h)
    \/ \E h \in 1..NumHandlers : HandlerLoad(h)
    \/ \E h \in 1..NumHandlers : HandlerStore(h)
    \/ \E h \in 1..NumHandlers : HandlerRespond(h)
    \/ CreateBookOf(ConcCandidates)

SpecConc == Init /\ [][NextConc]_vars

\* The same program when clients create books whose id is the empty string.
NextEmptyId ==
    \/ GetBooks
    \/ BookById
    \/ CheckoutBook
    \/ ReturnBook
    \/ CreateBookMalformed
    \/ CreateBookOf(CandidateBooksOf(EmptyIds, NonNegQuantities))

SpecEmptyId == Init /\ [][NextEmptyId]_vars

\* ------------------------------------------------------------------ helpers
\* Index and quantity of the record a lookup of id resolves to.
First(bs, id) == getBookById(bs, id)

Present(bs, id) == \E k \in 1..Len(bs) : bs[k].ID = id

\* -------------------------------------------------------------------- C1
\* C1: a Checkout carrying an id whose first matching record has quantity 0
\* is answered with the single response 400 "No more books left", and the
\* collection (every record's quantity) is the same after the call as before.
C1_CheckoutZeroRefused ==
    [][ (/\ req'.op = "checkoutBook"
         /\ req'.ok
         /\ Present(books, req'.id)
         /\ books[First(books, req'.id)].Quantity = 0)
        => (/\ resp' = << JSONMessage(StatusBadRequest, "No more books left") >>
            /\ Len(books') = Len(books)
            /\ \A k \in 1..Len(books) : books'[k].Quantity = books[k].Quantity) ]_vars

C1_Witness ==
    /\ req.op = "checkoutBook"
    /\ req.ok
    /\ pre.found
    /\ pre.quantity = 0
    /\ resp = << JSONMessage(StatusBadRequest, "No more books left") >>

\* -------------------------------------------------------------------- C2
\* C2: starting from the seeded store and creating only books with
\* quantity >= 0, every record's quantity is >= 0 in every reachable state.
C2_QuantityNonNegative ==
    \A k \in 1..Len(books) : books[k].Quantity >= 0

\* -------------------------------------------------------------------- C3
\* C3 (as stated): a Return that immediately follows a Checkout of the same
\* present id leaves the record's quantity equal to its value before the
\* Checkout, whatever that value was.
C3_RoundTripAnyQuantity ==
    chain = "checkout-return"
        => books[First(books, req.id)].Quantity = orig

\* C3 (amended): the round trip restores the quantity when the quantity
\* before the Checkout was > 0, that is when the Checkout succeeded.
C3_RoundTripPositive ==
    (chain = "checkout-return" /\ orig > 0)
        => books[First(books, req.id)].Quantity = orig

C3_Witness ==
    /\ chain = "checkout-return"
    /\ orig > 0
    /\ req.op = "returnBook"
    /\ books[First(books, req.id)].Quantity = orig

\* -------------------------------------------------------------------- C4
\* C4 (as stated): a FindByID(b.id) that immediately follows Create(b)
\* returns a record equal to b in id, title, author and quantity.
C4_CreateThenFindAny ==
    [][ (/\ req.op = "createBook"
         /\ req.ok
         /\ req'.op = "bookById"
         /\ req'.id = req.body.ID)
        => resp' = << JSONBook(StatusOK, req.body) >> ]_vars

\* C4 (amended): the same, for a candidate whose id no record of the store
\* carried before the Create.
C4_CreateThenFindFresh ==
    [][ (/\ req.op = "createBook"
         /\ req.ok
         /\ ~pre.found
         /\ req'.op = "bookById"
         /\ req'.id = req.body.ID)
        => resp' = << JSONBook(StatusOK, req.body) >> ]_vars

C4_Witness ==
    /\ chain = "create-find"
    /\ req.op = "bookById"
    /\ pre.found
    /\ Len(resp) = 1
    /\ resp[1].code = StatusOK
    /\ resp[1].data = << books[Len(books)] >>
    /\ Cardinality({k \in 1..Len(books) : books[k].ID = req.id}) = 1

\* -------------------------------------------------------------------- C5
\* C5: FindByID, Checkout and Return carrying an id that no record has are
\* each answered with the single response 404, and leave the collection
\* unchanged.
C5_AbsentIdNotFound ==
    [][ (/\ req'.op \in {"bookById", "checkoutBook", "returnBook"}
         /\ req'.ok
         /\ ~Present(books, req'.id))
        => (/\ Len(resp') = 1
            /\ resp'[1].code = StatusNotFound
            /\ resp'[1].kind = "message"
            /\ resp'[1].message = (IF req'.op = "bookById" THEN "Book not found."
                                                          ELSE "Book not found")
            /\ books' = books) ]_vars

C5_Witness ==
    /\ req.op = "returnBook"
    /\ req.ok
    /\ ~pre.found
    /\ resp = << JSONMessage(StatusNotFound, "Book not found") >>
    /\ books = SeedBooks

\* -------------------------------------------------------------------- C6
\* C6: a Checkout or Return without an id query parameter is answered with
\* exactly one response, 400 "Missing id query parameter".
C6_MissingIdSingleResponse ==
    (req.op \in {"checkoutBook", "returnBook"} /\ ~req.ok)
        => resp = << JSONMessage(StatusBadRequest, "Missing id query parameter") >>

\* -------------------------------------------------------------------- C7
\* C7: each successful Create appends exactly one record: the collection
\* after Create(b) is the collection before it with b as the last element.
C7_CreateAppends ==
    [][ (req'.op = "createBook" /\ req'.ok)
        => (/\ Len(books') = Len(books) + 1
            /\ SubSeq(books', 1, Len(books)) = books
            /\ books'[Len(books')] = req'.body) ]_vars

C7_Witness ==
    /\ req.op = "createBook"
    /\ req.ok
    /\ Len(books) = Len(SeedBooks) + 1
    /\ books[Len(books)] = req.body
    /\ resp = << JSONBook(StatusCreated, req.body) >>

\* -------------------------------------------------------------------- C8
\* C8: when the first record matching id has quantity n > 0, Checkout(id) is
\* answered 200, sets that record's quantity to n - 1, and the record in the
\* response shows quantity n - 1.
C8_CheckoutDecrements ==
    [][ (/\ req'.op = "checkoutBook"
         /\ req'.ok
         /\ Present(books, req'.id)
         /\ books[First(books, req'.id)].Quantity > 0)
        => LET i == First(books, req'.id)
               n == books[i].Quantity
           IN  /\ books'[i].Quantity = n - 1
               /\ resp' = << JSONBook(StatusOK, [books[i] EXCEPT !.Quantity = n - 1]) >> ]_vars

C8_Witness ==
    /\ req.op = "checkoutBook"
    /\ req.ok
    /\ pre.found
    /\ pre.quantity > 0
    /\ Len(resp) = 1
    /\ resp[1].code = StatusOK
    /\ resp[1].data[1].Quantity = pre.quantity - 1

\* -------------------------------------------------------------------- C9
\* C9: Return(id) on a present id is answered 200 and sets the first matching
\* record's quantity to exactly its previous value + 1, whatever that was.
C9_ReturnIncrements ==
    [][ (/\ req'.op = "returnBook"
         /\ req'.ok
         /\ Present(books, req'.id))
        => LET i == First(books, req'.id)
           IN  /\ books'[i].Quantity = books[i].Quantity + 1
               /\ Len(resp') = 1
               /\ resp'[1].code = StatusOK ]_vars

\* -------------------------------------------------------------------- C10
\* C10: from the seeded store, with no Return on id "1", the first three
\* Checkout("1") calls give 200 with quantity 1, 200 with quantity 0, then
\* 400 "No more books left" with the quantity still 0.
C10_ThreeCheckouts ==
    ~returned1 =>
        /\ (checkouts1 = 0 => books[1].Quantity = 2)
        /\ (checkouts1 = 1 => books[1].Quantity = 1)
        /\ (checkouts1 \in {2, 3} => books[1].Quantity = 0)
        /\ (req.op = "checkoutBook" /\ req.ok /\ req.id = "1") =>
              /\ (checkouts1 = 1 => resp = << JSONBook(StatusOK, [SeedBooks[1] EXCEPT !.Quantity = 1]) >>)
              /\ (checkouts1 = 2 => resp = << JSONBook(StatusOK, [SeedBooks[1] EXCEPT !.Quantity = 0]) >>)
              /\ (checkouts1 = 3 => resp = << JSONMessage(StatusBadRequest, "No more books left") >>)

C10_Witness ==
    /\ ~returned1
    /\ checkouts1 = 3
    /\ req.op = "checkoutBook"
    /\ req.id = "1"
    /\ books[1].Quantity = 0
    /\ resp = << JSONMessage(StatusBadRequest, "No more books left") >>

\* -------------------------------------------------------------------- C11
\* The record earliest in insertion order among those carrying id.
Earliest(bs, id) ==
    CHOOSE i \in 1..Len(bs) : bs[i].ID = id /\ \A j \in 1..(i - 1) : bs[j].ID # id

\* A record that an earlier record of the collection shares its id with.
LaterDuplicate(bs, k) == \E j \in 1..(k - 1) : bs[j].ID = bs[k].ID

\* C11: when several records carry the same id, FindByID, Checkout and
\* Return act on the earliest one: it is the record returned and the only
\* one whose quantity changes; no step changes a later duplicate.
C11_FirstMatchWins ==
    [][ /\ \A k \in 1..Len(books) : LaterDuplicate(books, k) => books'[k] = books[k]
        /\ (/\ req'.op \in {"bookById", "checkoutBook", "returnBook"}
            /\ req'.ok
            /\ Present(books, req'.id))
           => LET i == Earliest(books, req'.id)
              IN  /\ \A k \in 1..Len(books) : k # i => books'[k] = books[k]
                  /\ resp'[Len(resp')].kind = "book"
                        => resp'[Len(resp')].data = << books'[i] >> ]_vars

C11_Witness ==
    /\ req.op = "returnBook"
    /\ req.ok
    /\ req.id = "1"
    /\ Len(books) > Len(SeedBooks)
    /\ books[Len(books)].ID = "1"
    /\ books[1].Quantity = pre.quantity + 1
    /\ resp = << JSONBook(StatusOK, books[1]) >>

\* -------------------------------------------------------------------- C12
\* C12: a Create whose body cannot be parsed into a book leaves the
\* collection unchanged and writes no book in its response.
C12_MalformedCreateNoEffect ==
    [][ (req'.op = "createBook" /\ ~req'.ok)
        => (/\ books' = books
            /\ \A r \in 1..Len(resp') : resp'[r].kind # "book" /\ resp'[r].data = <<>>) ]_vars

C12_Witness ==
    /\ req.op = "createBook"
    /\ ~req.ok
    /\ resp = << AbortBadRequest >>
    /\ Len(books) > Len(SeedBooks)

\* -------------------------------------------------------------------- C13
\* C13: a Checkout or Return that carries no id query parameter changes no
\* record's quantity, also when a record with the empty id has been created.
C13_MissingIdNoMutation ==
    [][ (req'.op \in {"checkoutBook", "returnBook"} /\ ~req'.ok)
        => (/\ Len(books') = Len(books)
            /\ \A k \in 1..Len(books) : books'[k].Quantity = books[k].Quantity) ]_vars

\* -------------------------------------------------------------------- C17
\* The collection starts with the three seeded records, in order.
StartsWithSeed ==
    /\ Len(books) >= Len(SeedBooks)
    /\ \A k \in 1..Len(SeedBooks) :
          /\ books[k].ID = SeedBooks[k].ID
          /\ books[k].Title = SeedBooks[k].Title
          /\ books[k].Author = SeedBooks[k].Author

\* No step removes or reorders a record or changes its id, title or author.
RecordsKept ==
    /\ Len(books') >= Len(books)
    /\ \A k \in 1..Len(books) :
          /\ books'[k].ID = books[k].ID
          /\ books'[k].Title = books[k].Title
          /\ books'[k].Author = books[k].Author

\* The positions whose quantity a step changes.
QuantityChanged == {k \in 1..Len(books) : books'[k].Quantity # books[k].Quantity}

\* ListAll and FindByID change nothing.
ReadsChangeNothing == req'.op \in {"getBooks", "bookById"} => books' = books

\* A Checkout or Return that finds its record (with stock, for a Checkout).
Mutates ==
    /\ req'.op \in {"checkoutBook", "returnBook"}
    /\ Present(books, req'.id)
    /\ req'.op = "checkoutBook" => books[First(books, req'.id)].Quantity > 0

\* C17 (as stated): the collection always starts with the seeded records, no
\* step removes, reorders or relabels a record, every Checkout or Return
\* changes the quantity of exactly one record and nothing else, and ListAll
\* and FindByID change nothing.
C17_FrameEveryRequest ==
    /\ []StartsWithSeed
    /\ [][ /\ RecordsKept
           /\ ReadsChangeNothing
           /\ req'.op \in {"checkoutBook", "returnBook"}
                => /\ Len(books') = Len(books)
                   /\ Cardinality(QuantityChanged) = 1 ]_vars

\* C17 (amended): the same, where a Checkout or Return changes the quantity
\* of exactly one record (the first match) when it finds its record, with
\* quantity > 0 for a Checkout, and changes nothing when it is refused.
C17_FrameSuccessfulRequest ==
    /\ []StartsWithSeed
    /\ [][ /\ RecordsKept
           /\ ReadsChangeNothing
           /\ req'.op \in {"checkoutBook", "returnBook"}
                => /\ Len(books') = Len(books)
                   /\ QuantityChanged = IF Mutates THEN {Earliest(books, req'.id)} ELSE {} ]_vars

C17_Witness ==
    /\ req.op = "checkoutBook"
    /\ req.ok
    /\ req.id = "1"
    /\ resp = << JSONBook(StatusOK, books[1]) >>
    /\ books[1].Quantity = pre.quantity - 1
    /\ Len(books) > Len(SeedBooks)
    /\ \A k \in 2..Len(SeedBooks) : books[k] = SeedBooks[k]

\* -------------------------------------------------------------------- C14
\* No handler is in the middle of a request.
Quiescent == \A h \in 1..NumHandlers : handlers[h].pc = "idle"

\* C14: when handlers interleave between reading and writing the quantity an
\* update can be lost.  With Returns only, served on the record with id "1",
\* every sequential ordering ends at the seeded quantity plus the number of
\* Returns answered; interleaved, the final quantity never exceeds that and
\* never falls below the seeded quantity (and the witness is a final state
\* strictly below the sequential result).
C14_ReturnsNeverOvercount ==
    (Quiescent /\ started.checkoutBook = 0)
        => /\ books[1].Quantity <= SeedBooks[1].Quantity + answered.returnBook
           /\ books[1].Quantity >= SeedBooks[1].Quantity

C14_Witness ==
    /\ Quiescent
    /\ started.checkoutBook = 0
    /\ answered.returnBook = 2
    /\ Len(books) = Len(SeedBooks)
    /\ books[1].Quantity = SeedBooks[1].Quantity + 1

\* -------------------------------------------------------------------- C15
\* C15: also when handlers interleave, the Checkouts answered 200 on the
\* record with id "1" never exceed its seeded quantity plus the Returns
\* completed, and no record's quantity is below 0.
C15_CheckoutNeverOversells ==
    /\ answered.checkoutBook <= SeedBooks[1].Quantity + answered.returnBook
    /\ \A k \in 1..Len(books) : books[k].Quantity >= 0

\* -------------------------------------------------------------------- C16
\* C16: the quantity a Checkout or Return handler writes is the quantity the
\* collection shows for that id from then on (to ListAll and FindByID), also
\* when a Create has completed between the handler's lookup and its write.
C16_WriteVisibleInCollection ==
    [][ \A h \in 1..NumHandlers :
          (handlers[h].pc = "store" /\ handlers'[h].pc = "respond")
            => books'[First(books', handlers[h].id)].Quantity = handlers'[h].tmp ]_vars

\* -------------------------------------------------------------------- C18
\* What the request of a step adds to the ledger of the record at position k:
\* -1 for a Checkout answered 200 on it, +1 for a Return answered 200 on it,
\* nothing for any other request (answered 400 or 404, or not on it).
Contribution(k) ==
    IF /\ req'.op \in {"checkoutBook", "returnBook"}
       /\ resp'[1].code = StatusOK
       /\ Present(books, req'.id)
       /\ k = Earliest(books, req'.id)
    THEN (IF req'.op = "checkoutBook" THEN 0 - 1 ELSE 1)
    ELSE 0

\* C18: with requests served one at a time, every record's quantity is its
\* quantity at creation (or seeding) minus the Checkouts answered 200 on it
\* plus the Returns answered 200 on it.  Stated step by step: a record enters
\* the collection with the quantity of the body that created it, and every
\* request changes every record's quantity by exactly its contribution.
C18_QuantityLedger ==
    [][ \A k \in 1..Len(books') :
          IF k > Len(books)
          THEN req'.op = "createBook" /\ books'[k].Quantity = req'.body.Quantity
          ELSE books'[k].Quantity = books[k].Quantity + Contribution(k) ]_vars

\* ------------------------------------------------------------------- typing
TypeOK ==
    /\ Len(books) \in 3..MaxBooks
    /\ \A i \in 1..Len(books) : books[i].Quantity \in MinInt..MaxInt
    /\ req.op \in {"none", "getBooks", "bookById", "checkoutBook", "returnBook", "createBook"}
    /\ Len(resp) \in 0..2

====
